---- MODULE Spec2Model ----
(***************************************************************************)
(* sindex (src/sindex.c): the semantic indexer's persistent store, its     *)
(* `add` and `rm` commands run as concurrent processes against one SQLite  *)
(* database, and the pure helpers of `search` (mode parsing and printing). *)
(*                                                                         *)
(* C strings are sequences of one-character strings (<<"d","e","f">> is    *)
(* "def"), so that strlen, indexing, prefixes and GLOB are computed.       *)
(***************************************************************************)
EXTENDS Integers, Sequences, FiniteSets, TLC

VARIABLES
    mtime,            \* the filesystem: st_mtime of the source files that get touched
    db,               \* the committed database: [exists, user_version, file, sindex, seq]
    tx,               \* the working copy of the open write transaction
    lock,             \* the process holding the write lock (0: nobody)
    pc,               \* where each process stands
    sindex_command,   \* per process: "add", "rm" or "" before main ran
    err,              \* per process: the diagnostic of sindex_error(1, ...), "" if none
    sindex_include_local_syms,  \* per process: --include-local-syms
    input_streams,    \* per process: the frontend's stream table (input_stream_nr is its length)
    sindex_streams,   \* per process: the registry, one id per stream
    staging,          \* per process: the rows of tempdb.sindex, in rowid order
    cb,               \* per process: the reporter callback that waits in update_stream
    cur_mtime,        \* per process: update_stream's st.st_mtime of the stream at hand
    argv,             \* per process: the patterns of `rm`
    trace,            \* history: per process, the callbacks the frontend made in this run
    pre,              \* history: per process, the tables and mtimes when the run started
    wrote,            \* history: per process, whether a commit of this run changed the tables
    last_commit,      \* history: who committed last, and in which operation
    search,           \* the mode round trip of `search -m` and `%m`
    stmts             \* per process: the prepared statements with host parameters

vars == <<mtime, db, tx, lock, pc, sindex_command, err, sindex_include_local_syms,
          input_streams, sindex_streams, staging, cb, cur_mtime, argv,
          trace, pre, wrote, last_commit, search, stmts>>

----------------------------------------------------------------------------
(* Bounds of the model.                                                     *)

NProcs == 2          \* process slots; each runs one command
MaxStreams == 2      \* streams the frontend opens, all runs together
MaxCallbacks == 2    \* reporter callbacks the frontend makes, all runs together
MaxMtime == 2        \* a file is touched at most MaxMtime - 1 times

Procs == 1..NProcs

----------------------------------------------------------------------------
(* Mode bits (dissect.h) and the database version.                          *)

U_SHIFT == 8
U_R_AOF == 1
U_W_AOF == 2
U_R_VAL == 4
U_W_VAL == 8
U_R_PTR == U_R_VAL * (2 ^ U_SHIFT)
U_W_PTR == U_W_VAL * (2 ^ U_SHIFT)
U_DEF == 256 * (2 ^ U_SHIFT)
SINDEX_DATABASE_VERSION == 1

RECURSIVE BitOr(_, _)
BitOr(a, b) ==
    IF a = 0 THEN b
    ELSE IF b = 0 THEN a
    ELSE (IF a % 2 = 1 \/ b % 2 = 1 THEN 1 ELSE 0) + 2 * BitOr(a \div 2, b \div 2)

----------------------------------------------------------------------------
(* Decimal text of an integer column and atoi.                              *)

Digits == <<"0", "1", "2", "3", "4", "5", "6", "7", "8", "9">>

RECURSIVE column_text(_)
column_text(n) ==
    IF n < 10 THEN <<Digits[n + 1]>>
    ELSE Append(column_text(n \div 10), Digits[(n % 10) + 1])

IsDigit(c) == \E d \in 1..10 : Digits[d] = c

DigitValue(c) == (CHOOSE d \in 1..10 : Digits[d] = c) - 1

RECURSIVE atoi_from(_, _)
atoi_from(s, acc) ==
    IF s = <<>> \/ ~IsDigit(Head(s)) THEN acc
    ELSE atoi_from(Tail(s), (10 * acc) + DigitValue(Head(s)))

atoi(s) == atoi_from(s, 0)

----------------------------------------------------------------------------
(* search: set_search_modmask and print_mode.                               *)

str_def == <<"d", "e", "f">>

modes == <<U_R_AOF, U_W_AOF, BitOr(U_R_AOF, U_W_AOF),
           U_R_VAL, U_W_VAL, BitOr(U_R_VAL, U_W_VAL),
           U_R_PTR, U_W_PTR, BitOr(U_R_PTR, U_W_PTR)>>

modes_swapped == <<U_W_AOF, U_R_AOF, BitOr(U_R_AOF, U_W_AOF),
                   U_R_VAL, U_W_VAL, BitOr(U_R_VAL, U_W_VAL),
                   U_R_PTR, U_W_PTR, BitOr(U_R_PTR, U_W_PTR)>>

\* the one-character forms
expand_mode(v) ==
    CASE v = <<"r">> -> <<"r", "r", "r">>
      [] v = <<"w">> -> <<"w", "w", "-">>
      [] v = <<"m">> -> <<"m", "m", "m">>
      [] v = <<"-">> -> <<"-", "-", "-">>
      [] OTHER -> <<>>

\* the loop over the three characters; i counts from 0 as in the source
RECURSIVE modmask_loop(_, _, _, _)
modmask_loop(tbl, v, i, mask) ==
    IF i = 3 THEN [ok |-> TRUE, defined |-> TRUE, modmask |-> mask]
    ELSE CASE v[i + 1] = "r" -> modmask_loop(tbl, v, i + 1, BitOr(mask, tbl[(i * 3) + 1]))
           [] v[i + 1] = "w" -> modmask_loop(tbl, v, i + 1, BitOr(mask, tbl[(i * 3) + 2]))
           [] v[i + 1] = "m" -> modmask_loop(tbl, v, i + 1, BitOr(mask, tbl[(i * 3) + 3]))
           [] v[i + 1] = "-" -> modmask_loop(tbl, v, i + 1, mask)
           [] OTHER -> [ok |-> FALSE, defined |-> TRUE, modmask |-> mask]

modmask_with(tbl, v) ==
    LET n == Len(v) IN
    IF n # 1 /\ n # 3 THEN [ok |-> FALSE, defined |-> FALSE, modmask |-> 0]
    ELSE IF n = 1 THEN
        IF expand_mode(v) = <<>> THEN [ok |-> FALSE, defined |-> TRUE, modmask |-> 0]
        ELSE modmask_loop(tbl, expand_mode(v), 0, 0)
    ELSE IF v = str_def THEN [ok |-> TRUE, defined |-> TRUE, modmask |-> U_DEF]
    ELSE modmask_loop(tbl, v, 0, 0)

set_search_modmask_swapped(v) == modmask_with(modes_swapped, v)

\* [ok, defined, modmask]: ok is FALSE where the source ends in sindex_error(1, ...)
set_search_modmask(v) == modmask_with(modes, v)

U(v, m) == <<"-", "r", "w", "m">>[((v \div m) % 4) + 1]

\* value is the text of the mode column; the result is what printf writes
print_mode(value) ==
    LET v == atoi(value) IN
    IF v = U_DEF THEN str_def
    ELSE <<U(v, U_R_AOF), U(v, U_R_VAL), U(v, U_R_PTR)>>

----------------------------------------------------------------------------
(* Paths: the project root, and what update_stream makes of a real path.    *)

cwd == <<"/", "r">>
n_cwd == Len(cwd)

PathA == <<"/", "r", "/", "a">>       \* under the root: stored as "a"
PathB == <<"/", "r", "/", "b">>       \* under the root: stored as "b"
PathC == <<"/", "r", "x", "/", "c">>  \* outside: starts with cwd but not with cwd and '/'
PathD == <<"/", "o", "/", "d">>       \* outside
Builtin == <<"b", "u", "i", "l", "t", "i", "n">>

\* !strncmp(fullname, cwd, n_cwd)
prefix_is_cwd(fullname) ==
    /\ Len(fullname) >= n_cwd
    /\ SubSeq(fullname, 1, n_cwd) = cwd

under_root_no_separator(fullname) == prefix_is_cwd(fullname) /\ Len(fullname) > n_cwd

\* !strncmp(fullname, cwd, n_cwd) && fullname[n_cwd] == '/'
under_root(fullname) ==
    /\ prefix_is_cwd(fullname)
    /\ Len(fullname) > n_cwd
    /\ fullname[n_cwd + 1] = "/"

\* filename = fullname + n_cwd + 1
relative_name(fullname) == SubSeq(fullname, n_cwd + 2, Len(fullname))

\* a stream of the frontend: its real path and its descriptor (-1: no backing file)
Stream(name, fd) == [name |-> name, fd |-> fd]

\* stat(): the files the model touches carry their mtime in the variable, the others never change
st_mtime(name) == IF name \in DOMAIN mtime THEN mtime[name] ELSE 1

----------------------------------------------------------------------------
(* SQLite: GLOB, the two tables with their constraints, transactions.       *)

\* the characters of the model in the order of their codes (memcmp, ranges of GLOB)
Chars == <<"\n", " ", "%", "*", "-", ".", "/",
           "0", "1", "2", "3", "4", "5", "6", "7", "8", "9", ":", "?",
           "A", "B", "C", "D", "E", "F", "G", "H", "I", "J", "K", "L", "M",
           "N", "O", "P", "Q", "R", "S", "T", "U", "V", "W", "X", "Y", "Z",
           "[", "\\", "]", "^", "_",
           "a", "b", "c", "d", "e", "f", "g", "h", "i", "j", "k", "l", "m",
           "n", "o", "p", "q", "r", "s", "t", "u", "v", "w", "x", "y", "z">>

Code(c) == CHOOSE i \in 1..Len(Chars) : Chars[i] = c

\* the set of a '[' of GLOB, read up to its ']': [seen, rest, closed]. c is the
\* character to match, prior the character a range may start from (<<>>: none)
RECURSIVE glob_set(_, _, _, _)
glob_set(pattern, c, prior, seen) ==
    IF pattern = <<>> THEN [seen |-> seen, rest |-> <<>>, closed |-> FALSE]
    ELSE IF Head(pattern) = "]" THEN [seen |-> seen, rest |-> Tail(pattern), closed |-> TRUE]
    ELSE IF /\ Head(pattern) = "-"
            /\ Len(pattern) > 1
            /\ pattern[2] # "]"
            /\ prior # <<>>
    THEN glob_set(Tail(Tail(pattern)), c, <<>>,
                  seen \/ (Code(c) >= Code(prior[1]) /\ Code(c) <= Code(pattern[2])))
    ELSE glob_set(Tail(pattern), c, <<Head(pattern)>>, seen \/ c = Head(pattern))

\* '[' was read: an optional '^', a ']' right after it is a member of the set
glob_set_open(pattern, c) ==
    LET invert == pattern # <<>> /\ Head(pattern) = "^"
        p1 == IF invert THEN Tail(pattern) ELSE pattern
        first == p1 # <<>> /\ Head(p1) = "]"
        p2 == IF first THEN Tail(p1) ELSE p1
        r == glob_set(p2, c, <<>>, first /\ c = "]")
    IN [ok |-> r.closed /\ (r.seen # invert), rest |-> r.rest]

\* name GLOB pattern: '*' matches any run of characters, '?' exactly one,
\* '[...]' one character of a set; everything else matches itself
RECURSIVE Glob(_, _)
Glob(pattern, name) ==
    IF pattern = <<>> THEN name = <<>>
    ELSE IF Head(pattern) = "*"
        THEN Glob(Tail(pattern), name) \/ (name # <<>> /\ Glob(pattern, Tail(name)))
    ELSE IF Head(pattern) = "?"
        THEN name # <<>> /\ Glob(Tail(pattern), Tail(name))
    ELSE IF Head(pattern) = "["
        THEN /\ name # <<>>
             /\ LET r == glob_set_open(Tail(pattern), Head(name)) IN
                    r.ok /\ Glob(r.rest, Tail(name))
    ELSE name # <<>> /\ Head(name) = Head(pattern) /\ Glob(Tail(pattern), Tail(name))

NoTx == [file |-> {}, sindex |-> {}, seq |-> 0]

\* the tables of a database, as a transaction sees them
Tables(d) == [file |-> d.file, sindex |-> d.sindex, seq |-> d.seq]

\* CREATE UNIQUE INDEX sindex_0 ON sindex (symbol, kind, mode, file, line, column)
sindex_0(r) == <<r.symbol, r.kind, r.mode, r.file, r.line, r.column>>

FileIds(t) == {f.id : f \in t.file}

\* SELECT id, mtime FROM file WHERE name == @name
select_file(t, name) == {f \in t.file : f.name = name}

delete_file_no_cascade(t, name) ==
    [t EXCEPT !.file = {f \in t.file : f.name # name}]

\* DELETE FROM file WHERE name == @name, with foreign_keys = ON: ON DELETE CASCADE
delete_file(t, name) ==
    LET gone == {f.id : f \in select_file(t, name)} IN
    [t EXCEPT !.file = {f \in t.file : f.name # name},
              !.sindex = {r \in t.sindex : r.file \notin gone}]

same_mtime_never(cur, old) == FALSE

\* cur_mtime == old_mtime
same_mtime(cur, old) == cur = old

\* name TEXT UNIQUE NOT NULL
file_name_free(t, name) == select_file(t, name) = {}

\* INTEGER PRIMARY KEY without AUTOINCREMENT: one more than the largest id in use
insert_file_rowid(t, name, mt) ==
    LET top == IF t.file = {} THEN 0
               ELSE CHOOSE m \in FileIds(t) : \A i \in FileIds(t) : i <= m
    IN
    [t EXCEPT !.file = t.file \cup {[mtime |-> mt, name |-> name, id |-> top + 1]},
              !.seq = t.seq + 1]

\* INSERT INTO file (name, mtime): id INTEGER PRIMARY KEY AUTOINCREMENT never
\* reuses an id, sqlite_sequence (seq) remembers the largest one ever given
insert_file(t, name, mt) ==
    [t EXCEPT !.file = t.file \cup {[mtime |-> mt, name |-> name, id |-> t.seq + 1]},
              !.seq = t.seq + 1]

\* DELETE FROM file without the WHERE clause, cascading
delete_glob_all(t, pattern) == [t EXCEPT !.file = {}, !.sindex = {}]

\* DELETE FROM file WHERE name GLOB @file, cascading
delete_glob(t, pattern) ==
    LET gone == {f.id : f \in {g \in t.file : Glob(pattern, g.name)}} IN
    [t EXCEPT !.file = {f \in t.file : f.id \notin gone},
              !.sindex = {r \in t.sindex : r.file \notin gone}]

\* one row under OR IGNORE: a row whose sindex_0 key is taken is skipped
insert_or_ignore(rows, r) ==
    IF \E x \in rows : sindex_0(x) = sindex_0(r) THEN rows ELSE rows \cup {r}

RECURSIVE insert_select_first_only(_, _)
insert_select_first_only(rows, stg) ==
    IF stg = <<>> THEN rows ELSE insert_or_ignore(rows, Head(stg))

RECURSIVE insert_select_no_index(_, _)
insert_select_no_index(rows, stg) ==
    IF stg = <<>> THEN rows ELSE insert_select_no_index(rows \cup {Head(stg)}, Tail(stg))

\* INSERT OR IGNORE INTO sindex SELECT * FROM tempdb.sindex, in rowid order
RECURSIVE insert_select(_, _)
insert_select(rows, stg) ==
    IF stg = <<>> THEN rows
    ELSE insert_select(insert_or_ignore(rows, Head(stg)), Tail(stg))

\* file INTEGER NOT NULL REFERENCES file(id): OR IGNORE does not cover a foreign
\* key, the statement fails when a row it inserted names no file record
foreign_key_ok(t) == \A r \in t.sindex : r.file \in FileIds(t)

----------------------------------------------------------------------------
(* Transactions and the end of a process.                                   *)

lock_ignored == TRUE

\* BEGIN IMMEDIATE returns once no other connection holds the write lock
\* (busy_timeout = 2147483647: it waits)
lock_free == lock = 0

unlock_keeps(l, p) == l

\* COMMIT, or the end of the process: the write transaction of p, if any, is over
unlock(l, p) == IF l = p THEN 0 ELSE l

\* COMMIT: the working copy becomes the committed tables
commit(d, t) == [d EXCEPT !.file = t.file, !.sindex = t.sindex, !.seq = t.seq]

exit_commits(d, t, holding) == IF holding THEN commit(d, t) ELSE d

\* exit() or a kill inside a transaction: the connection goes, SQLite rolls back
exit_rollback(d, t, holding) == d

Stopped == {"idle", "exit0", "exit1", "killed"}

Running(p) == pc[p] \notin Stopped

\* sindex_error(1, ...): the diagnostic, exit status 1
sindex_error(p, message) ==
    /\ pc' = [pc EXCEPT ![p] = "exit1"]
    /\ err' = [err EXCEPT ![p] = message]
    /\ db' = exit_rollback(db, tx, lock = p)
    /\ tx' = IF lock = p THEN NoTx ELSE tx
    /\ lock' = unlock(lock, p)
    /\ UNCHANGED last_commit

----------------------------------------------------------------------------
(* open_database and main.                                                  *)

EmptyDb ==
    [file |-> {}, sindex |-> {}, seq |-> 0, exists |-> FALSE, user_version |-> 0,
     schema |-> FALSE, journal_mode |-> "delete"]

\* sqlite3_open_v2(filename, &sindex_db, flags, NULL): [db, ok]; with
\* SQLITE_OPEN_CREATE a missing file is created, empty
sqlite3_open_v2(d, create) ==
    IF ~d.exists /\ ~create THEN [db |-> d, ok |-> FALSE]
    ELSE [db |-> [d EXCEPT !.exists = TRUE], ok |-> TRUE]

\* the five PRAGMAs after the open: [db, ok]. journal_mode = WAL rewrites the
\* header of a store that is not in WAL mode yet, and fails on a read-only
\* connection to such a store; the other four change the connection only
pragmas(d, readonly) ==
    IF d.journal_mode = "wal" THEN [db |-> d, ok |-> TRUE]
    ELSE IF readonly THEN [db |-> d, ok |-> FALSE]
    ELSE [db |-> [d EXCEPT !.journal_mode = "wal"], ok |-> TRUE]

\* get_db_version() < SINDEX_DATABASE_VERSION does not hold
version_ok(d) == d.user_version >= SINDEX_DATABASE_VERSION

\* set_db_version, then the CREATE statements: [db, ok]; CREATE TABLE file fails
\* when the table is there already
create_schema(d) ==
    [db |-> [d EXCEPT !.user_version = SINDEX_DATABASE_VERSION, !.schema = TRUE],
     ok |-> ~d.schema]

\* open_database when no other process touches the store meanwhile: [db, ok]
open_database(d, create, readonly) ==
    LET o == sqlite3_open_v2(d, create)
        j == pragmas(o.db, readonly)
    IN IF ~o.ok THEN o
       ELSE IF ~j.ok THEN j
       ELSE IF d.exists THEN [db |-> j.db, ok |-> version_ok(j.db)]
       ELSE create_schema(j.db)

Snapshot(d) == [mtime |-> mtime, file |-> d.file, sindex |-> d.sindex]

\* a slot starts its command once the slot before it has started
MayStart(p) == pc[p] = "idle" /\ \A q \in Procs : q < p => pc[q] # "idle"

\* sindex add: parse_cmdline_add, open_database, command_add up to dissect()
\* main up to the first statement of open_database: the command line is parsed
\* and access() has told whether the store file exists (int exists)
main_add(p, local) ==
    /\ MayStart(p)
    /\ pc' = [pc EXCEPT ![p] = IF db.exists THEN "open_exists" ELSE "open_new"]
    /\ pre' = [pre EXCEPT ![p] = Snapshot(db)]
    /\ sindex_command' = [sindex_command EXCEPT ![p] = "add"]
    /\ sindex_include_local_syms' = [sindex_include_local_syms EXCEPT ![p] = local]
    /\ UNCHANGED <<mtime, db, tx, lock, err, input_streams, sindex_streams, staging,
                   cb, cur_mtime, argv, trace, wrote, last_commit, search, stmts>>

main_rm(p, patterns) ==
    /\ MayStart(p)
    /\ pc' = [pc EXCEPT ![p] = IF db.exists THEN "open_exists" ELSE "open_new"]
    /\ pre' = [pre EXCEPT ![p] = Snapshot(db)]
    /\ sindex_command' = [sindex_command EXCEPT ![p] = "rm"]
    /\ argv' = [argv EXCEPT ![p] = patterns]
    /\ UNCHANGED <<mtime, db, tx, lock, err, sindex_include_local_syms,
                   input_streams, sindex_streams, staging, cb, cur_mtime, trace,
                   wrote, last_commit, search, stmts>>

\* where the handler of the command starts
handler(p) == IF sindex_command[p] = "add" THEN "dissect" ELSE "rm_begin"

\* open_database: sqlite3_open_v2 and the PRAGMAs
open_database_open(p) ==
    /\ pc[p] \in {"open_exists", "open_new"}
    /\ LET o == sqlite3_open_v2(db, sindex_command[p] = "add")
           j == pragmas(o.db, FALSE)
       IN IF o.ok
          THEN /\ db' = j.db
               /\ pc' = [pc EXCEPT ![p] = IF pc[p] = "open_exists"
                                          THEN "version" ELSE "schema"]
               /\ UNCHANGED err
          ELSE /\ db' = db
               /\ pc' = [pc EXCEPT ![p] = "exit1"]
               /\ err' = [err EXCEPT ![p] = "unable to open database"]
    /\ UNCHANGED <<mtime, tx, lock, sindex_command, sindex_include_local_syms,
                   input_streams, sindex_streams, staging, cb, cur_mtime, argv,
                   trace, pre, wrote, last_commit, search, stmts>>

\* open_database, if (exists): the version check; the handler then prepares its
\* statements, which fails when the tables are missing
open_database_exists(p) ==
    /\ pc[p] = "version"
    /\ pc' = [pc EXCEPT ![p] = IF version_ok(db) /\ db.schema THEN handler(p)
                               ELSE "exit1"]
    /\ err' = [err EXCEPT ![p] = IF ~version_ok(db) THEN "Database too old"
                                 ELSE IF ~db.schema THEN "unable to prepare query"
                                 ELSE @]
    /\ UNCHANGED <<mtime, db, tx, lock, sindex_command, sindex_include_local_syms,
                   input_streams, sindex_streams, staging, cb, cur_mtime, argv,
                   trace, pre, wrote, last_commit, search, stmts>>

\* open_database, the store file was not there: set_db_version and the schema,
\* each statement waiting for a write transaction of another process to end
open_database_create(p) ==
    /\ pc[p] = "schema"
    /\ lock_free
    /\ LET c == create_schema(db) IN
        /\ db' = c.db
        /\ pc' = [pc EXCEPT ![p] = IF c.ok THEN handler(p) ELSE "exit1"]
        /\ err' = [err EXCEPT ![p] = IF c.ok THEN @ ELSE "table file already exists"]
    /\ UNCHANGED <<mtime, tx, lock, sindex_command, sindex_include_local_syms,
                   input_streams, sindex_streams, staging, cb, cur_mtime, argv,
                   trace, pre, wrote, last_commit, search, stmts>>


----------------------------------------------------------------------------
(* Prepared statements with host parameters.                                *)

\* a statement after sqlite_prepare_persistent: no parameter is bound and the
\* cursor stands before the first step. bound: the parameters that hold a value;
\* left: those whose value was bound before the last execution; cleared, reset:
\* sqlite3_clear_bindings, sqlite3_reset ran since the last execution; ok: no
\* execution so far started without both, or with a value left in a parameter
Prepared == [ok |-> TRUE, bound |-> {}, left |-> {}, cleared |-> TRUE, reset |-> TRUE]

\* insert_rec_stmt, select_file_stmt, insert_file_stmt, delete_file_stmt and the
\* stmt of command_rm
Statements ==
    [s \in {"insert_rec_stmt", "select_file_stmt", "insert_file_stmt",
            "delete_file_stmt", "stmt"} |-> Prepared]

\* sqlite_bind_text, sqlite_bind_int64
sqlite_bind(st, field) ==
    [st EXCEPT !.bound = @ \cup {field}, !.left = @ \ {field}]

\* sqlite_run: sqlite3_step
sqlite_run(st) ==
    [st EXCEPT !.ok = @ /\ st.cleared /\ st.reset /\ st.left = {},
               !.left = st.bound, !.cleared = FALSE, !.reset = FALSE]

\* sqlite3_reset alone keeps the values of the parameters
sqlite_reset_only(st) == [st EXCEPT !.reset = TRUE]

\* sqlite_reset_stmt: sqlite3_clear_bindings, sqlite3_reset
sqlite_reset_stmt(st) ==
    [st EXCEPT !.bound = {}, !.left = {}, !.cleared = TRUE, !.reset = TRUE]

\* bind one parameter after the other
RECURSIVE sqlite_binds(_, _)
sqlite_binds(st, fields) ==
    IF fields = <<>> THEN st
    ELSE sqlite_binds(sqlite_bind(st, Head(fields)), Tail(fields))

\* what insert_record does to insert_rec_stmt
insert_record_stmt(st) ==
    sqlite_reset_stmt(sqlite_run(sqlite_binds(st,
        <<"@context", "@symbol", "@kind", "@mode", "@file", "@line", "@column">>)))

----------------------------------------------------------------------------
(* The reporter: what a callback stages.                                    *)

NoCallback == [fn |-> "none"]

\* the sum of the lengths of the sequences f[1], ..., f[n]
RECURSIVE TotalLen(_, _)
TotalLen(f, n) == IF n = 0 THEN 0 ELSE Len(f[n]) + TotalLen(f, n - 1)

question_mark == <<"?">>
asterisk == <<"*">>

\* insert_rec_stmt: tempdb.sindex has no index, so OR IGNORE skips nothing
insert_record(stg, rec) == Append(stg, rec)

\* r_symbol without the test of sym_is_local
r_symbol_tail_keeps_local(stg, c, streams, local) ==
    LET id == streams[c.pos.stream] IN
    IF id = -1 THEN stg
    ELSE IF ~c.sym.has_ident THEN stg
    ELSE insert_record(stg,
            [file |-> id, symbol |-> c.sym.ident, kind |-> c.sym.kind,
             mode |-> c.mode, line |-> c.pos.line, column |-> c.pos.pos,
             context |-> c.ctx])

\* r_symbol after update_stream
r_symbol_tail(stg, c, streams, local) ==
    LET id == streams[c.pos.stream] IN
    IF id = -1 THEN stg
    ELSE IF ~local /\ c.sym.local THEN stg
    ELSE IF ~c.sym.has_ident THEN stg
    ELSE insert_record(stg,
            [file |-> id, symbol |-> c.sym.ident, kind |-> c.sym.kind,
             mode |-> c.mode, line |-> c.pos.line, column |-> c.pos.pos,
             context |-> c.ctx])

\* r_member after update_stream
r_member_tail(stg, c, streams, local) ==
    LET id == streams[c.pos.stream]
        si == IF c.sym.has_ident THEN c.sym.ident ELSE question_mark
        mi == IF c.mem.null THEN asterisk
              ELSE IF c.mem.has_ident THEN c.mem.ident ELSE question_mark
    IN
    IF id = -1 THEN stg
    ELSE IF ~local /\ c.sym.local THEN stg
    ELSE insert_record(stg,
            [file |-> id, symbol |-> si \o <<".">> \o mi, kind |-> "m",
             mode |-> c.mode, line |-> c.pos.line, column |-> c.pos.pos,
             context |-> c.ctx])

callback_tail(stg, c, streams, local) ==
    IF c.fn = "r_member" THEN r_member_tail(stg, c, streams, local)
    ELSE r_symbol_tail(stg, c, streams, local)

\* the statements after the callback: insert_record ran if a record was staged
callback_stmts(sts, stg, staged) ==
    IF Len(staged) > Len(stg)
    THEN [sts EXCEPT !["insert_rec_stmt"] = insert_record_stmt(@)]
    ELSE sts

\* a callback enters update_stream: it returns at once when every stream has its
\* slot, else the callback waits for the write lock
Callback(p, c) ==
    /\ pc[p] = "dissect"
    /\ TotalLen(trace, NProcs) < MaxCallbacks
    /\ c.pos.stream \in 1..Len(input_streams[p])
    /\ trace' = [trace EXCEPT ![p] = Append(@, c)]
    /\ IF Len(sindex_streams[p]) >= Len(input_streams[p])
       THEN /\ staging' = [staging EXCEPT ![p] =
                    callback_tail(@, c, sindex_streams[p], sindex_include_local_syms[p])]
            /\ stmts' = [stmts EXCEPT ![p] = callback_stmts(@, staging[p], staging'[p])]
            /\ UNCHANGED <<pc, cb>>
       ELSE /\ cb' = [cb EXCEPT ![p] = c]
            /\ pc' = [pc EXCEPT ![p] = "us_lock"]
            /\ UNCHANGED <<staging, stmts>>
    /\ UNCHANGED <<mtime, db, tx, lock, sindex_command, err, sindex_include_local_syms,
                   input_streams, sindex_streams, cur_mtime, argv, pre, wrote,
                   last_commit, search>>

r_symbol(p, mode, pos, sym, ctx) ==
    Callback(p, [mode |-> mode, fn |-> "r_symbol", pos |-> pos, sym |-> sym,
                 ctx |-> ctx,
                 mem |-> [has_ident |-> FALSE, ident |-> <<>>, null |-> TRUE]])

r_member(p, mode, pos, sym, mem, ctx) ==
    Callback(p, [mode |-> mode, fn |-> "r_member", pos |-> pos, sym |-> sym,
                 ctx |-> ctx, mem |-> mem])

r_symdef(p, sym, ctx) == r_symbol(p, U_DEF, sym.pos, sym, ctx)

r_memdef(p, sym, mem, ctx) == r_member(p, U_DEF, mem.pos, sym, mem, ctx)

\* the frontend opens one more stream
init_stream(p, s) ==
    /\ pc[p] = "dissect"
    /\ TotalLen(input_streams, NProcs) < MaxStreams
    /\ input_streams' = [input_streams EXCEPT ![p] = Append(@, s)]
    /\ UNCHANGED <<mtime, db, tx, lock, pc, sindex_command, err,
                   sindex_include_local_syms, sindex_streams, staging, cb, cur_mtime,
                   argv, trace, pre, wrote, last_commit, search, stmts>>

----------------------------------------------------------------------------
(* update_stream: one write transaction over the streams that have no slot. *)

\* the stream the loop is at: i counts the slots already filled
stream_at_hand(p) == input_streams[p][Len(sindex_streams[p]) + 1]

\* the loop goes on to the next stream, or to COMMIT after the last one
after_stream(p) ==
    IF Len(sindex_streams[p]) + 1 = Len(input_streams[p]) THEN "us_unlock" ELSE "us_select"

\* what one turn of the loop does to select_file_stmt and, on a row with a stale
\* mtime, to delete_file_stmt; without a row select_file_stmt stays as it ran
select_turn(sts, row, stale) ==
    LET ran == [sts EXCEPT !["select_file_stmt"] = sqlite_run(sqlite_bind(@, "@name"))]
        rst == [ran EXCEPT !["select_file_stmt"] = sqlite_reset_stmt(@)]
    IN
    IF ~row THEN ran
    ELSE IF ~stale THEN rst
    ELSE [rst EXCEPT !["delete_file_stmt"] =
                sqlite_reset_stmt(sqlite_run(sqlite_bind(@, "@name")))]

\* the rest of the turn: select_file_stmt is reset, insert_file_stmt is bound and
\* run, and reset when sqlite_run returns
insert_turn(sts, done) ==
    LET ran == sqlite_run(sqlite_binds(sts["insert_file_stmt"], <<"@name", "@mtime">>)) IN
    [sts EXCEPT !["select_file_stmt"] = sqlite_reset_stmt(@),
                !["insert_file_stmt"] = IF done THEN sqlite_reset_stmt(ran) ELSE ran]

\* sqlite_run(lock_stmt)
update_stream_lock(p) ==
    /\ pc[p] = "us_lock"
    /\ lock_free
    /\ lock' = p
    /\ tx' = Tables(db)
    /\ pc' = [pc EXCEPT ![p] = "us_select"]
    /\ UNCHANGED <<mtime, db, sindex_command, err, sindex_include_local_syms,
                   input_streams, sindex_streams, staging, cb, cur_mtime, argv,
                   trace, pre, wrote, last_commit, search, stmts>>

\* one turn of the loop up to the INSERT: stat, realpath, the root test,
\* select_file_stmt and, on a stale mtime, delete_file_stmt
update_stream_select(p) ==
    /\ pc[p] = "us_select"
    /\ LET s == stream_at_hand(p)
           filename == relative_name(s.name)
           found == select_file(tx, filename)
           row == CHOOSE f \in found : TRUE
       IN
       IF s.fd = -1 \/ ~under_root(s.name)
       THEN /\ sindex_streams' = [sindex_streams EXCEPT ![p] = Append(@, -1)]
            /\ pc' = [pc EXCEPT ![p] = after_stream(p)]
            /\ UNCHANGED <<tx, cur_mtime, stmts>>
       ELSE IF found # {} /\ same_mtime(st_mtime(s.name), row.mtime)
       THEN /\ sindex_streams' = [sindex_streams EXCEPT ![p] = Append(@, row.id)]
            /\ pc' = [pc EXCEPT ![p] = after_stream(p)]
            /\ stmts' = [stmts EXCEPT ![p] = select_turn(@, TRUE, FALSE)]
            /\ UNCHANGED <<tx, cur_mtime>>
       ELSE /\ tx' = IF found # {} THEN delete_file(tx, filename) ELSE tx
            /\ cur_mtime' = [cur_mtime EXCEPT ![p] = st_mtime(s.name)]
            /\ pc' = [pc EXCEPT ![p] = "us_insert"]
            /\ stmts' = [stmts EXCEPT ![p] = select_turn(@, found # {}, TRUE)]
            /\ UNCHANGED sindex_streams
    /\ UNCHANGED <<mtime, db, lock, sindex_command, err, sindex_include_local_syms,
                   input_streams, staging, cb, argv, trace, pre, wrote,
                   last_commit, search>>

\* stat or realpath fails on a stream with a backing file: sindex_error(1, errno, ...)
update_stream_stat_error(p) ==
    /\ pc[p] = "us_select"
    /\ stream_at_hand(p).fd # -1
    /\ sindex_error(p, "stat")
    /\ UNCHANGED <<mtime, sindex_command, sindex_include_local_syms, input_streams,
                   sindex_streams, staging, cb, cur_mtime, argv, trace, pre, wrote,
                   search, stmts>>

\* insert_file_stmt and sqlite3_last_insert_rowid
update_stream_insert(p) ==
    /\ pc[p] = "us_insert"
    /\ LET filename == relative_name(stream_at_hand(p).name) IN
       IF file_name_free(tx, filename)
       THEN /\ tx' = insert_file(tx, filename, cur_mtime[p])
            /\ sindex_streams' = [sindex_streams EXCEPT ![p] = Append(@, tx'.seq)]
            /\ pc' = [pc EXCEPT ![p] = after_stream(p)]
            /\ stmts' = [stmts EXCEPT ![p] = insert_turn(@, TRUE)]
            /\ UNCHANGED <<db, lock, err, last_commit>>
       ELSE /\ sindex_error(p, "UNIQUE constraint failed: file.name")
            /\ stmts' = [stmts EXCEPT ![p] = insert_turn(@, FALSE)]
            /\ UNCHANGED sindex_streams
    /\ cur_mtime' = [cur_mtime EXCEPT ![p] = 0]
    /\ UNCHANGED <<mtime, sindex_command, sindex_include_local_syms, input_streams,
                   staging, cb, argv, trace, pre, wrote, search>>

\* sqlite_run(unlock_stmt), sindex_streams_nr = input_stream_nr, and the rest of
\* the callback that called update_stream
update_stream_unlock(p) ==
    /\ pc[p] = "us_unlock"
    /\ db' = commit(db, tx)
    /\ tx' = NoTx
    /\ lock' = unlock(lock, p)
    /\ wrote' = [wrote EXCEPT ![p] = @ \/ Tables(db) # tx]
    /\ last_commit' = [proc |-> p, op |-> "update_stream"]
    /\ staging' = [staging EXCEPT ![p] =
            callback_tail(@, cb[p], sindex_streams[p], sindex_include_local_syms[p])]
    /\ stmts' = [stmts EXCEPT ![p] = callback_stmts(@, staging[p], staging'[p])]
    /\ cb' = [cb EXCEPT ![p] = NoCallback]
    /\ pc' = [pc EXCEPT ![p] = "dissect"]
    /\ UNCHANGED <<mtime, sindex_command, err, sindex_include_local_syms,
                   input_streams, sindex_streams, cur_mtime, argv, trace, pre, search>>

----------------------------------------------------------------------------
(* command_add after dissect(): the merge of the staging table.             *)

\* dissect() returns
dissect_return(p) ==
    /\ pc[p] = "dissect"
    /\ pc' = [pc EXCEPT ![p] = "merge_lock"]
    /\ UNCHANGED <<mtime, db, tx, lock, sindex_command, err,
                   sindex_include_local_syms, input_streams, sindex_streams, staging,
                   cb, cur_mtime, argv, trace, pre, wrote, last_commit, search, stmts>>

\* sqlite_run(lock_stmt)
command_add_lock(p) ==
    /\ pc[p] = "merge_lock"
    /\ lock_free
    /\ lock' = p
    /\ tx' = Tables(db)
    /\ pc' = [pc EXCEPT ![p] = "merge"]
    /\ UNCHANGED <<mtime, db, sindex_command, err, sindex_include_local_syms,
                   input_streams, sindex_streams, staging, cb, cur_mtime, argv,
                   trace, pre, wrote, last_commit, search, stmts>>

\* INSERT OR IGNORE INTO sindex SELECT * FROM tempdb.sindex, then COMMIT and exit 0
command_add_merge(p) ==
    /\ pc[p] = "merge"
    /\ LET merged == [tx EXCEPT !.sindex = insert_select(tx.sindex, staging[p])] IN
       IF foreign_key_ok(merged)
       THEN /\ db' = commit(db, merged)
            /\ tx' = NoTx
            /\ lock' = unlock(lock, p)
            /\ wrote' = [wrote EXCEPT ![p] = @ \/ Tables(db) # merged]
            /\ last_commit' = [proc |-> p, op |-> "merge"]
            /\ pc' = [pc EXCEPT ![p] = "exit0"]
            /\ UNCHANGED err
       ELSE /\ sindex_error(p, "FOREIGN KEY constraint failed")
            /\ UNCHANGED wrote
    /\ UNCHANGED <<mtime, sindex_command, sindex_include_local_syms, input_streams,
                   sindex_streams, staging, cb, cur_mtime, argv, trace, pre, search, stmts>>

----------------------------------------------------------------------------
(* command_rm.                                                              *)

delete_first_pattern(t, patterns) ==
    IF patterns = <<>> THEN t ELSE delete_glob(t, Head(patterns))

\* for (i = 0; i < argc; i++): the DELETE of every pattern
RECURSIVE delete_patterns(_, _)
delete_patterns(t, patterns) ==
    IF patterns = <<>> THEN t
    ELSE delete_patterns(delete_glob(t, Head(patterns)), Tail(patterns))

\* the loop as stmt sees it: bind @file, run, sqlite_reset_stmt
RECURSIVE delete_stmt_loop(_, _)
delete_stmt_loop(st, patterns) ==
    IF patterns = <<>> THEN st
    ELSE delete_stmt_loop(sqlite_reset_stmt(sqlite_run(sqlite_bind(st, "@file"))),
                          Tail(patterns))

\* sqlite_command("BEGIN IMMEDIATE")
command_rm_begin(p) ==
    /\ pc[p] = "rm_begin"
    /\ lock_free
    /\ lock' = p
    /\ tx' = Tables(db)
    /\ pc' = [pc EXCEPT ![p] = "rm_delete"]
    /\ UNCHANGED <<mtime, db, sindex_command, err, sindex_include_local_syms,
                   input_streams, sindex_streams, staging, cb, cur_mtime, argv,
                   trace, pre, wrote, last_commit, search, stmts>>

\* the loop over argv, COMMIT, exit 0
command_rm_delete(p) ==
    /\ pc[p] = "rm_delete"
    /\ LET after == delete_patterns(tx, argv[p]) IN
        /\ db' = commit(db, after)
        /\ wrote' = [wrote EXCEPT ![p] = @ \/ Tables(db) # after]
    /\ tx' = NoTx
    /\ lock' = unlock(lock, p)
    /\ last_commit' = [proc |-> p, op |-> "rm"]
    /\ pc' = [pc EXCEPT ![p] = "exit0"]
    /\ stmts' = [stmts EXCEPT ![p]["stmt"] = delete_stmt_loop(@, argv[p])]
    /\ UNCHANGED <<mtime, sindex_command, err, sindex_include_local_syms,
                   input_streams, sindex_streams, staging, cb, cur_mtime, argv,
                   trace, pre, search>>

----------------------------------------------------------------------------
(* The environment: a process is killed, a source file is modified.         *)

Kill(p) ==
    /\ Running(p)
    /\ pc' = [pc EXCEPT ![p] = "killed"]
    /\ db' = exit_rollback(db, tx, lock = p)
    /\ tx' = IF lock = p THEN NoTx ELSE tx
    /\ lock' = unlock(lock, p)
    /\ UNCHANGED <<mtime, sindex_command, err, sindex_include_local_syms,
                   input_streams, sindex_streams, staging, cb, cur_mtime, argv,
                   trace, pre, wrote, last_commit, search, stmts>>

Touch(name) ==
    /\ mtime[name] < MaxMtime
    /\ mtime' = [mtime EXCEPT ![name] = @ + 1]
    /\ UNCHANGED <<db, tx, lock, pc, sindex_command, err, sindex_include_local_syms,
                   input_streams, sindex_streams, staging, cb, cur_mtime, argv,
                   trace, pre, wrote, last_commit, search, stmts>>

----------------------------------------------------------------------------
(* What the frontend and the command line may hand in.                      *)

Pos(stream) == [line |-> 1, pos |-> 1, stream |-> stream]

\* struct symbol: ident (has_ident is FALSE for a NULL ident), kind, pos, locality
Symbol(has, ident, kind, local, stream) ==
    [kind |-> kind, local |-> local, pos |-> Pos(stream),
     has_ident |-> has, ident |-> ident]

SymX(stream) == Symbol(TRUE, <<"x">>, "v", FALSE, stream)
SymLocal(stream) == Symbol(TRUE, <<"l">>, "v", TRUE, stream)
SymNoIdent(stream) == Symbol(FALSE, <<>>, "v", FALSE, stream)
SymTag(stream) == Symbol(TRUE, <<"s">>, "s", FALSE, stream)

\* the member of r_member: null is TRUE when the whole aggregate is accessed
Member(null, has, ident, stream) ==
    [pos |-> Pos(stream), has_ident |-> has, ident |-> ident, null |-> null]

MemM(stream) == Member(FALSE, TRUE, <<"m">>, stream)
MemNoIdent(stream) == Member(FALSE, FALSE, <<>>, stream)
MemWhole(stream) == Member(TRUE, FALSE, <<>>, stream)

StreamNrs == 1..MaxStreams

\* the uses of a symbol the frontend reports in a stream, with dissect_ctx
SymbolUses(stream) ==
    {[sym |-> SymX(stream), ctx |-> <<>>],
     [sym |-> SymX(stream), ctx |-> <<"f">>],
     [sym |-> SymLocal(stream), ctx |-> <<"f">>],
     [sym |-> SymNoIdent(stream), ctx |-> <<>>]}

\* the uses of a member the frontend reports in a stream
MemberUses(stream) ==
    {[sym |-> SymTag(stream), mem |-> MemM(stream)],
     [sym |-> SymTag(stream), mem |-> MemNoIdent(stream)],
     [sym |-> SymNoIdent(stream), mem |-> MemWhole(stream)]}

FileA == Stream(PathA, 3)
FileB == Stream(PathB, 3)
FileC == Stream(PathC, 3)
FileD == Stream(PathD, 3)
FileBuiltin == Stream(Builtin, -1)

NameA == relative_name(PathA)
NameB == relative_name(PathB)

\* the command lines of `rm`
RmArguments == {<<<<"a">>>>, <<<<"b", "?">>, <<"a">>>>, <<<<"*">>>>}

----------------------------------------------------------------------------
(* Init and the specifications.                                             *)

SearchIdle == [pc |-> "idle", modmask |-> 0, mode |-> 0, text |-> <<>>, out |-> <<>>]

\* no process has started yet
InitIdle ==
    /\ mtime = [n \in {PathA, PathB} |-> 1]
    /\ tx = NoTx
    /\ lock = 0
    /\ pc = [p \in Procs |-> "idle"]
    /\ sindex_command = [p \in Procs |-> ""]
    /\ err = [p \in Procs |-> ""]
    /\ sindex_include_local_syms = [p \in Procs |-> FALSE]
    /\ input_streams = [p \in Procs |-> <<>>]
    /\ sindex_streams = [p \in Procs |-> <<>>]
    /\ staging = [p \in Procs |-> <<>>]
    /\ cb = [p \in Procs |-> NoCallback]
    /\ cur_mtime = [p \in Procs |-> 0]
    /\ argv = [p \in Procs |-> <<>>]
    /\ trace = [p \in Procs |-> <<>>]
    /\ pre = [p \in Procs |-> [mtime |-> mtime, file |-> {}, sindex |-> {}]]
    /\ wrote = [p \in Procs |-> FALSE]
    /\ last_commit = [proc |-> 0, op |-> "none"]
    /\ stmts = [p \in Procs |-> Statements]

\* ... and there is no store file yet
InitIndex == InitIdle /\ db = EmptyDb

Init == InitIndex /\ search = SearchIdle

\* Spec: the processes run concurrently; the frontend is kept small
Next ==
    \/ \E p \in Procs : main_add(p, FALSE)
    \/ \E p \in Procs : main_rm(p, <<<<"*">>>>)
    \/ \E p \in Procs : open_database_open(p)
    \/ \E p \in Procs : open_database_exists(p)
    \/ \E p \in Procs : open_database_create(p)
    \/ \E p \in Procs : init_stream(p, FileA)
    \/ \E p \in Procs, n \in StreamNrs : r_symdef(p, SymX(n), <<>>)
    \/ \E p \in Procs : update_stream_lock(p)
    \/ \E p \in Procs : update_stream_select(p)
    \/ \E p \in Procs : update_stream_stat_error(p)
    \/ \E p \in Procs : update_stream_insert(p)
    \/ \E p \in Procs : update_stream_unlock(p)
    \/ \E p \in Procs : dissect_return(p)
    \/ \E p \in Procs : command_add_lock(p)
    \/ \E p \in Procs : command_add_merge(p)
    \/ \E p \in Procs : command_rm_begin(p)
    \/ \E p \in Procs : command_rm_delete(p)
    \/ \E p \in Procs : Kill(p)
    \/ Touch(PathA)

Spec == Init /\ [][Next]_vars

\* the store files add and rm may find: none; a file that is not a store of this
\* program (no user_version, rollback journal); a store of the current version
OpenStores ==
    {EmptyDb,
     [EmptyDb EXCEPT !.exists = TRUE],
     [EmptyDb EXCEPT !.exists = TRUE, !.user_version = SINDEX_DATABASE_VERSION,
                     !.schema = TRUE, !.journal_mode = "wal"]}

\* what process p does by itself once started, up to its exit; a statement that
\* finds the store busy is tried again until the write transaction is free
ProcessStep(p) ==
    \/ open_database_open(p)
    \/ open_database_exists(p)
    \/ open_database_create(p)
    \/ update_stream_lock(p)
    \/ update_stream_select(p)
    \/ update_stream_insert(p)
    \/ update_stream_unlock(p)
    \/ command_add_lock(p)
    \/ command_add_merge(p)
    \/ command_rm_begin(p)
    \/ command_rm_delete(p)

\* SpecLive: Spec, where no started process stops taking steps for ever while it
\* could take one (the frontend and the environment stay free)
SpecLive == Spec /\ \A p \in Procs : WF_vars(ProcessStep(p))

\* SpecOpen: as Spec, with the store file the first process finds left open
InitOpen == InitIdle /\ db \in OpenStores /\ search = SearchIdle

SpecOpen == InitOpen /\ [][Next]_vars

\* SpecSeq: one command after the other, the file changes between the runs
Quiet(p) == \A q \in Procs \ {p} : ~Running(q)

\* the frontend of SpecSeq and SpecFront reports in the stream it opened last
CurrentStream(p) == Len(input_streams[p])

NextSeq ==
    \/ \E p \in Procs : Quiet(p) /\ main_add(p, FALSE)
    \/ \E p \in Procs, patterns \in RmArguments : Quiet(p) /\ main_rm(p, patterns)
    \/ \E p \in Procs : open_database_open(p)
    \/ \E p \in Procs : open_database_exists(p)
    \/ \E p \in Procs : open_database_create(p)
    \/ \E p \in Procs, s \in {FileA, FileB} : init_stream(p, s)
    \/ \E p \in Procs, ctx \in {<<>>, <<"f">>} :
            r_symbol(p, U_R_VAL, Pos(CurrentStream(p)), SymX(CurrentStream(p)), ctx)
    \/ \E p \in Procs : r_symdef(p, SymX(CurrentStream(p)), <<>>)
    \/ \E p \in Procs : update_stream_lock(p)
    \/ \E p \in Procs : update_stream_select(p)
    \/ \E p \in Procs : update_stream_insert(p)
    \/ \E p \in Procs : update_stream_unlock(p)
    \/ \E p \in Procs : dissect_return(p)
    \/ \E p \in Procs : command_add_lock(p)
    \/ \E p \in Procs : command_add_merge(p)
    \/ \E p \in Procs : command_rm_begin(p)
    \/ \E p \in Procs : command_rm_delete(p)
    \/ (\A p \in Procs : ~Running(p)) /\ Touch(PathA)

SpecSeq == Init /\ [][NextSeq]_vars

\* SpecLocal: SpecSeq with a frontend that also reports uses of a local symbol
NextLocal ==
    \/ NextSeq
    \/ \E p \in Procs :
            r_symbol(p, U_R_VAL, Pos(CurrentStream(p)), SymLocal(CurrentStream(p)), <<"f">>)

SpecLocal == Init /\ [][NextLocal]_vars

\* SpecFront: one `add` run with every kind of stream and of callback
NextFront ==
    \/ \E local \in BOOLEAN : main_add(1, local)
    \/ open_database_open(1)
    \/ open_database_create(1)
    \/ \E s \in {FileA, FileB, FileC, FileD, FileBuiltin} : init_stream(1, s)
    \/ \E n \in StreamNrs : \E use \in SymbolUses(n) :
            r_symbol(1, U_R_VAL, Pos(n), use.sym, use.ctx)
    \/ \E n \in StreamNrs : r_symdef(1, SymX(n), <<>>)
    \/ \E n \in StreamNrs : \E use \in MemberUses(n) :
            r_member(1, U_W_VAL, Pos(n), use.sym, use.mem, <<"f">>)
    \/ \E n \in StreamNrs : r_memdef(1, SymTag(n), MemNoIdent(n), <<>>)
    \/ update_stream_lock(1)
    \/ update_stream_select(1)
    \/ update_stream_insert(1)
    \/ update_stream_unlock(1)
    \/ dissect_return(1)
    \/ command_add_lock(1)
    \/ command_add_merge(1)

SpecFront == Init /\ [][NextFront]_vars

----------------------------------------------------------------------------
(* SpecMode: a stored mode is printed by %m, the text is parsed by -m, and  *)
(* the mask is printed again.                                               *)

\* every value of the six R/W bits, and DEF
ModeValues == {(x * U_R_AOF) + (y * U_R_VAL) + (z * U_R_PTR) : x, y, z \in 0..3}

InitMode ==
    /\ InitIndex
    /\ search \in {[SearchIdle EXCEPT !.pc = "stored", !.mode = m] :
                        m \in ModeValues \cup {U_DEF}}

\* search_query_callback, case 'm': print_mode(argv[5])
print_stored_mode ==
    /\ search.pc = "stored"
    /\ search' = [search EXCEPT !.pc = "printed",
                                !.text = print_mode(column_text(search.mode))]
    /\ UNCHANGED <<mtime, db, tx, lock, pc, sindex_command, err,
                   sindex_include_local_syms, input_streams, sindex_streams, staging,
                   cb, cur_mtime, argv, trace, pre, wrote, last_commit,
                   stmts>>

\* parse_cmdline_search, case 'm': set_search_modmask(optarg)
parse_mode_option ==
    /\ search.pc = "printed"
    /\ LET r == set_search_modmask(search.text) IN
       search' = [search EXCEPT !.pc = IF r.ok THEN "parsed" ELSE "exit1",
                                !.modmask = r.modmask]
    /\ UNCHANGED <<mtime, db, tx, lock, pc, sindex_command, err,
                   sindex_include_local_syms, input_streams, sindex_streams, staging,
                   cb, cur_mtime, argv, trace, pre, wrote, last_commit,
                   stmts>>

\* print_mode of the parsed mask
print_parsed_mask ==
    /\ search.pc = "parsed"
    /\ search' = [search EXCEPT !.pc = "done",
                                !.out = print_mode(column_text(search.modmask))]
    /\ UNCHANGED <<mtime, db, tx, lock, pc, sindex_command, err,
                   sindex_include_local_syms, input_streams, sindex_streams, staging,
                   cb, cur_mtime, argv, trace, pre, wrote, last_commit,
                   stmts>>

NextMode == print_stored_mode \/ parse_mode_option \/ print_parsed_mask

SpecMode == InitMode /\ [][NextMode]_vars

----------------------------------------------------------------------------
(* search: the command line.                                                *)

EXPLAIN_LOCATION == 1
USAGE_BY_LOCATION == 2

RECURSIVE BitAnd(_, _)
BitAnd(a, b) ==
    IF a = 0 \/ b = 0 THEN 0
    ELSE (IF a % 2 = 1 /\ b % 2 = 1 THEN 1 ELSE 0) + 2 * BitAnd(a \div 2, b \div 2)

tolower(c) ==
    IF Code(c) >= Code("A") /\ Code(c) <= Code("Z")
    THEN Chars[Code(c) + (Code("a") - Code("A"))]
    ELSE c

\* a char pointer: NULL, or a string
NoText == [has |-> FALSE, text |-> <<>>]
Text(t) == [has |-> TRUE, text |-> t]

\* strchr(str, c): the position of the first c in str, 0 when there is none
RECURSIVE strchr(_, _, _)
strchr(str, c, i) ==
    IF i > Len(str) THEN 0
    ELSE IF str[i] = c THEN i
    ELSE strchr(str, c, i + 1)

\* strpbrk(str, accept) != NULL
strpbrk(str, accept) == \E i \in 1..Len(str) : str[i] \in accept

\* the globals of search before getopt runs
search_defaults ==
    [sindex_search_by_location |-> 0,
     sindex_search_format |->    \* "(%m) %f\t%l\t%c\t%C\t%s"
        <<"(", "%", "m", ")", " ", "%", "f", "\t", "%", "l", "\t", "%", "c", "\t",
          "%", "C", "\t", "%", "s">>,
     sindex_search_modmask |-> 0,
     sindex_search_modmask_defined |-> FALSE,
     sindex_search_kind |-> "",
     sindex_search_path |-> NoText,
     sindex_search_symbol |-> NoText,
     sindex_search_filename |-> NoText,
     sindex_search_line |-> 0,
     sindex_search_column |-> 0]

\* one piece of filename[:line[:column]]: it goes to the first of filename, line,
\* column that is still unset (0 counts as unset)
location_piece(g, piece) ==
    IF piece = <<>> THEN g
    ELSE IF ~g.sindex_search_filename.has
        THEN [g EXCEPT !.sindex_search_filename = Text(piece)]
    ELSE IF g.sindex_search_line = 0
        THEN [g EXCEPT !.sindex_search_line = atoi(piece)]
    ELSE IF g.sindex_search_column = 0
        THEN [g EXCEPT !.sindex_search_column = atoi(piece)]
    ELSE g

\* while (str): cut at ':', take the piece, go on behind the ':'
RECURSIVE location_loop(_, _)
location_loop(g, str) ==
    LET ptr == strchr(str, ":", 1)
        piece == IF ptr = 0 THEN str ELSE SubSeq(str, 1, ptr - 1)
        g1 == location_piece(g, piece)
    IN IF ptr = 0 THEN g1
       ELSE location_loop(g1, SubSeq(str, ptr + 1, Len(str)))

\* parse_cmdline_search over the command line o = [by, f, m, k, p, arg], where by
\* is what the last of -e and -l left in sindex_search_by_location and the others
\* are optarg of the option and the first non-option argument (NoText: not given):
\* [ok, g], ok is FALSE where the source ends in sindex_error(1, ...)
parse_cmdline_search(o) ==
    LET mm == IF o.m.has THEN set_search_modmask(o.m.text)
              ELSE [ok |-> TRUE, defined |-> FALSE, modmask |-> 0]
        g0 == [search_defaults EXCEPT
                 !.sindex_search_by_location = o.by,
                 !.sindex_search_format = IF o.f.has THEN o.f.text ELSE @,
                 !.sindex_search_modmask = mm.modmask,
                 !.sindex_search_modmask_defined = mm.defined,
                 !.sindex_search_kind =
                     IF o.k.has /\ o.k.text # <<>> THEN tolower(o.k.text[1]) ELSE "",
                 !.sindex_search_path = o.p]
    IN IF ~mm.ok THEN [ok |-> FALSE, g |-> g0]
       ELSE IF o.by # 0
       THEN IF ~o.arg.has THEN [ok |-> FALSE, g |-> g0]
            ELSE [ok |-> TRUE, g |-> location_loop(g0, o.arg.text)]
       ELSE [ok |-> TRUE, g |-> [g0 EXCEPT !.sindex_search_symbol = o.arg]]

----------------------------------------------------------------------------
(* search: the query.                                                       *)

\* FROM sindex, file WHERE sindex.file == file.id, with the selected columns
joined(t) ==
    {[name |-> f.name, symbol |-> r.symbol, kind |-> r.kind, mode |-> r.mode,
      line |-> r.line, column |-> r.column, context |-> r.context] :
        <<r, f>> \in {x \in t.sindex \X t.file : x[1].file = x[2].id}}

where_symbol_equal_only(g, r) ==
    g.sindex_search_symbol.has => r.symbol = g.sindex_search_symbol.text

where_symbol(g, r) ==
    g.sindex_search_symbol.has =>
        IF strpbrk(g.sindex_search_symbol.text, {"*", "?", "[", "]"})
        THEN Glob(g.sindex_search_symbol.text, r.symbol)
        ELSE r.symbol = g.sindex_search_symbol.text

where_modmask(g, r) ==
    g.sindex_search_modmask_defined =>
        IF g.sindex_search_modmask = 0
        THEN r.mode = g.sindex_search_modmask
        ELSE BitAnd(r.mode, g.sindex_search_modmask) # 0

\* file.name == %Q (never true of a NULL filename) AND line AND column, the last
\* two appended only when not 0
where_location(g, r) ==
    /\ g.sindex_search_filename.has
    /\ r.name = g.sindex_search_filename.text
    /\ g.sindex_search_line # 0 => r.line = g.sindex_search_line
    /\ g.sindex_search_column # 0 => r.column = g.sindex_search_column

where_by_location(g, t, r) ==
    IF g.sindex_search_by_location = EXPLAIN_LOCATION
        THEN where_location(g, r)
    ELSE IF g.sindex_search_by_location = USAGE_BY_LOCATION
        THEN r.symbol \in {q.symbol : q \in {q \in joined(t) : where_location(g, q)}}
    ELSE TRUE

\* the rows the WHERE clause of command_search lets through
where(g, t) ==
    {r \in joined(t) :
        /\ g.sindex_search_kind # "" => r.kind = g.sindex_search_kind
        /\ where_symbol(g, r)
        /\ where_modmask(g, r)
        /\ g.sindex_search_path.has => Glob(g.sindex_search_path.text, r.name)
        /\ where_by_location(g, t, r)}

\* memcmp of two texts (the BINARY collation): a sorts before b
RECURSIVE text_less(_, _)
text_less(a, b) ==
    IF b = <<>> THEN FALSE
    ELSE IF a = <<>> THEN TRUE
    ELSE IF a[1] # b[1] THEN Code(a[1]) < Code(b[1])
    ELSE text_less(Tail(a), Tail(b))

order_key_no_name(a, b) ==
    \/ a.line < b.line
    \/ a.line = b.line /\ a.column <= b.column

\* ORDER BY file.name, sindex.line, sindex.column ASC: a may come before b
order_key(a, b) ==
    \/ text_less(a.name, b.name)
    \/ a.name = b.name /\ a.line < b.line
    \/ a.name = b.name /\ a.line = b.line /\ a.column <= b.column

\* the orders in which sqlite3_exec may hand the rows S to the callback: rows that
\* agree on the three columns come in any order
RECURSIVE order_by(_)
order_by(S) ==
    IF S = {} THEN {<<>>}
    ELSE UNION {{<<r>> \o rest : rest \in order_by(S \ {r})} :
                    r \in {r \in S : \A q \in S : order_key(r, q)}}

----------------------------------------------------------------------------
(* search: printing a row.                                                  *)

\* the source files fopen finds under the working directory, as the lines getline
\* returns; any other name makes fopen fail
file_lines ==
    [n \in {<<"a">>, <<"b">>} |->
        IF n = <<"a">> THEN << <<"\n">>, <<"x", "\n">> >> ELSE << <<"y">> >>]

\* sizeof(buf) in search_query_callback
BufSize == 32

\* printf("%.*s", n, str): a negative precision counts as no precision
printf_precision(n, str) ==
    IF n < 0 \/ n >= Len(str) THEN str ELSE SubSeq(str, 1, n)

\* sindex_line[sindex_line_len-1] == '\n'; an index outside the text and its final
\* NUL reads whatever memory holds there: oob tells whether that byte is '\n'
last_is_newline(f, oob) ==
    LET i == f.sindex_line_len - 1 IN
    IF i >= 0 /\ i < Len(f.sindex_line) THEN f.sindex_line[i + 1] = "\n"
    ELSE IF i = Len(f.sindex_line) /\ f.read > 0 THEN FALSE
    ELSE oob

\* the do-while of print_file_line: [f, out]
RECURSIVE print_file_loop(_, _, _)
print_file_loop(f, lnum, oob) ==
    IF f.sindex_file_lnum = lnum
    THEN LET len == IF last_is_newline(f, oob)
                    THEN f.sindex_line_len - 1 ELSE f.sindex_line_len
         IN [f |-> [f EXCEPT !.sindex_line_len = len],
             out |-> printf_precision(len, f.sindex_line)]
    ELSE LET lines == file_lines[f.sindex_file_name.text] IN
         IF f.read < Len(lines)
         THEN print_file_loop(
                [f EXCEPT !.sindex_file_lnum = @ + 1,
                          !.sindex_line = lines[f.read + 1],
                          !.sindex_line_len = Len(lines[f.read + 1]),
                          !.read = @ + 1], lnum, oob)
         ELSE [f |-> [f EXCEPT !.sindex_file_lnum = @ + 1, !.sindex_line_len = -1],
               out |-> <<>>]

\* print_file_line(name, lnum): [ok, f, out], ok is FALSE when fopen fails
print_file_line(f, name, lnum, oob) ==
    IF f.sindex_file_name.has /\ f.sindex_file_name.text = name
    THEN LET r == print_file_loop(f, lnum, oob) IN
         [ok |-> TRUE, f |-> r.f, out |-> r.out]
    ELSE IF name \notin DOMAIN file_lines
    THEN [ok |-> FALSE, f |-> [f EXCEPT !.sindex_file_name = Text(name)], out |-> <<>>]
    ELSE LET r == print_file_loop(
                    [f EXCEPT !.sindex_file_name = Text(name),
                              !.sindex_file_lnum = 0, !.read = 0], lnum, oob)
         IN [ok |-> TRUE, f |-> r.f, out |-> r.out]

\* argv[colnum] of the callback, by the directive that selects it
print_string(row, c) ==
    IF c = "f" THEN row.name
    ELSE IF c = "l" THEN column_text(row.line)
    ELSE IF c = "c" THEN column_text(row.column)
    ELSE IF c = "C" THEN row.context
    ELSE row.symbol

\* the character a backslash stands before
unquote(c) ==
    IF c = "t" THEN "\t" ELSE IF c = "r" THEN "\r" ELSE IF c = "n" THEN "\n" ELSE c

\* buf[n++] = c, after printing the buffer when it is full
put(st, c) ==
    IF Len(st.buf) = BufSize
    THEN [st EXCEPT !.out = @ \o st.buf, !.buf = <<c>>, !.fmt = Tail(@)]
    ELSE [st EXCEPT !.buf = Append(@, c), !.fmt = Tail(@)]

\* one pass through the body of the while loop of search_query_callback, with
\* st = [err, f, out, buf, fmt, quote, requests]: the message of sindex_error, the
\* statics of print_file_line, what was printed, the buffer, the rest of the
\* format, the quote flag and the calls of print_file_line
format_step(st, row, oob) ==
    IF st.quote THEN put([st EXCEPT !.quote = FALSE], unquote(st.fmt[1]))
    ELSE IF st.fmt[1] = "%"
    THEN IF Len(st.fmt) = 1
         THEN [st EXCEPT !.err = "unexpected end of format string"]
         ELSE LET c == st.fmt[2]
                  flushed == [st EXCEPT !.out = @ \o st.buf, !.buf = <<>>,
                                        !.fmt = SubSeq(@, 3, Len(@))]
              IN IF c \in {"f", "l", "c", "C", "n"}
                 THEN [flushed EXCEPT !.out = @ \o print_string(row, c)]
                 ELSE IF c = "m"
                 THEN [flushed EXCEPT !.out = @ \o print_mode(column_text(row.mode))]
                 ELSE IF c = "k"
                 THEN [flushed EXCEPT !.out = @ \o <<row.kind>>]
                 ELSE IF c = "s"
                 THEN LET r == print_file_line(st.f, row.name,
                                               atoi(column_text(row.line)), oob)
                      IN [flushed EXCEPT
                            !.err = IF r.ok THEN @ ELSE "fopen",
                            !.f = r.f,
                            !.out = @ \o r.out,
                            !.requests = Append(@, [name |-> row.name,
                                                    line |-> row.line,
                                                    out |-> r.out])]
                 ELSE [st EXCEPT !.err = "invalid format specification"]
    ELSE IF st.fmt[1] = "\\"
    THEN [st EXCEPT !.quote = TRUE, !.fmt = Tail(@)]
    ELSE put(st, st.fmt[1])

\* the while loop of search_query_callback, left at the end of the format or by
\* sindex_error
RECURSIVE format_loop(_, _, _)
format_loop(st, row, oob) ==
    IF st.err # "" \/ st.fmt = <<>> THEN st
    ELSE format_loop(format_step(st, row, oob), row, oob)

----------------------------------------------------------------------------
(* search: the process.                                                     *)

\* main for `search`: parse_cmdline_search, then open_database read-only
main_search ==
    /\ search.pc = "start"
    /\ LET r == parse_cmdline_search(search.o)
           d == open_database(db, FALSE, TRUE)
       IN search' =
            IF ~r.ok THEN [search EXCEPT !.pc = "exit1", !.err = "usage"]
            ELSE IF ~d.ok
            THEN [search EXCEPT !.pc = "exit1", !.g = r.g,
                                !.err = IF ~db.exists THEN "unable to open database"
                                        ELSE IF db.journal_mode # "wal"
                                        THEN "unable to process query"
                                        ELSE "Database too old"]
            ELSE [search EXCEPT !.pc = "query", !.g = r.g]
    /\ UNCHANGED <<mtime, db, tx, lock, pc, sindex_command, err,
                   sindex_include_local_syms, input_streams, sindex_streams, staging,
                   cb, cur_mtime, argv, trace, pre, wrote, last_commit,
                   stmts>>

\* command_search: sqlite3_exec evaluates the query; the rows wait for the callback
command_search ==
    /\ search.pc = "query"
    /\ \E rows \in order_by(where(search.g, db)) :
            search' = [search EXCEPT !.pc = "rows", !.rows = rows]
    /\ UNCHANGED <<mtime, db, tx, lock, pc, sindex_command, err,
                   sindex_include_local_syms, input_streams, sindex_streams, staging,
                   cb, cur_mtime, argv, trace, pre, wrote, last_commit,
                   stmts>>

\* search_query_callback on the next row
search_query_callback ==
    /\ search.pc = "rows"
    /\ search.n < Len(search.rows)
    /\ \E oob \in BOOLEAN :
        LET st == format_loop([err |-> "", f |-> search.f, out |-> <<>>,
                               buf |-> <<>>,
                               fmt |-> search.g.sindex_search_format,
                               quote |-> FALSE, requests |-> search.requests],
                              search.rows[search.n + 1], oob)
        IN search' =
            IF st.err # ""
            THEN [search EXCEPT !.pc = "exit1", !.err = st.err, !.f = st.f,
                                !.requests = st.requests]
            ELSE [search EXCEPT !.n = @ + 1,
                                !.printed = Append(@, st.out \o st.buf \o <<"\n">>),
                                !.f = st.f, !.requests = st.requests]
    /\ UNCHANGED <<mtime, db, tx, lock, pc, sindex_command, err,
                   sindex_include_local_syms, input_streams, sindex_streams, staging,
                   cb, cur_mtime, argv, trace, pre, wrote, last_commit,
                   stmts>>

\* sqlite3_exec returns without an error; main returns 0
command_search_return ==
    /\ search.pc = "rows"
    /\ search.n = Len(search.rows)
    /\ search' = [search EXCEPT !.pc = "exit0"]
    /\ UNCHANGED <<mtime, db, tx, lock, pc, sindex_command, err,
                   sindex_include_local_syms, input_streams, sindex_streams, staging,
                   cb, cur_mtime, argv, trace, pre, wrote, last_commit,
                   stmts>>

\* a search process that has not run yet, with its command line; f holds the
\* statics of print_file_line: sindex_line is the text in the getline buffer (none
\* yet), read counts the lines getline has taken from sindex_file_fd
SearchStart(o) ==
    [pc |-> "start", err |-> "", n |-> 0,
     f |-> [sindex_line_len |-> 0, sindex_line |-> <<>>, read |-> 0,
            sindex_file_lnum |-> 0, sindex_file_name |-> NoText],
     g |-> search_defaults, rows |-> <<>>, o |-> o, requests |-> <<>>,
     printed |-> <<>>]

Record(file, symbol, kind, mode, line, column) ==
    [file |-> file, symbol |-> symbol, kind |-> kind, mode |-> mode, line |-> line,
     column |-> column, context |-> <<>>]

\* a store with three files; "c" is indexed but no longer on disk
Store(records) ==
    [file |-> {[mtime |-> 1, name |-> <<"a">>, id |-> 1],
               [mtime |-> 1, name |-> <<"b">>, id |-> 2],
               [mtime |-> 1, name |-> <<"c">>, id |-> 3]},
     sindex |-> records, seq |-> 3, exists |-> TRUE,
     user_version |-> SINDEX_DATABASE_VERSION, schema |-> TRUE,
     journal_mode |-> "wal"]

FilterRecords ==
    {Record(1, <<"x">>, "v", U_DEF, 1, 1),
     Record(1, <<"x">>, "v", U_R_VAL, 2, 1),
     Record(1, <<"y">>, "s", BitOr(U_DEF, U_R_VAL), 2, 1),
     Record(2, <<"x">>, "v", 0, 1, 2),
     Record(2, <<"x", "y">>, "f", U_W_AOF, 1, 1)}

LineRecords ==
    {Record(1, <<"x">>, "v", U_R_VAL, 1, 1),
     Record(1, <<"x">>, "v", U_R_VAL, 1, 2),
     Record(1, <<"x">>, "v", U_R_VAL, 2, 1),
     Record(1, <<"x">>, "v", U_R_VAL, 2, 2),
     Record(1, <<"x">>, "v", U_R_VAL, 3, 1),
     Record(1, <<"x">>, "v", U_R_VAL, 3, 2),
     Record(2, <<"x">>, "v", U_R_VAL, 1, 1),
     Record(2, <<"x">>, "v", U_R_VAL, 2, 1),
     Record(3, <<"x">>, "v", U_R_VAL, 1, 1)}

Options(by, f, m, k, p, arg) ==
    [m |-> m, f |-> f, p |-> p, by |-> by, k |-> k, arg |-> arg]

\* the searches checked: a command line and the store it runs against
Searches ==
    LET \* search [-m MODE] [-k KIND] [-p PATH] [PATTERN]
        FilterOptions ==
            {Options(0, NoText, m, k, p, arg) :
                m \in {NoText, Text(<<"d", "e", "f">>), Text(<<"r">>), Text(<<"-">>),
                       Text(<<"x">>)},
                k \in {NoText, Text(<<"v">>), Text(<<"S">>)},
                p \in {NoText, Text(<<"a">>), Text(<<"[", "b", "-", "c", "]">>)},
                arg \in {NoText, Text(<<"x">>), Text(<<"x", "*">>),
                         Text(<<"[", "y", "]">>)}}
        \* search -e LOC and search -l LOC
        LocationOptions ==
            {Options(by, NoText, NoText, NoText, NoText, arg) :
                by \in {EXPLAIN_LOCATION, USAGE_BY_LOCATION},
                arg \in {NoText, Text(<<"a">>), Text(<<"a", ":", "2">>),
                         Text(<<"a", ":", "2", ":", "1">>),
                         Text(<<"a", ":", "0", ":", "1">>),
                         Text(<<"a", ":", "2", ":", "0">>),
                         Text(<<"b", ":", "1", ":", "2">>)}}
        \* search -f FORMAT PATTERN
        FormatOptions ==
            {Options(0, Text(f), NoText, NoText, NoText, Text(arg)) :
                f \in {<<"%", "x">>, <<"%">>, <<"%", "f", "%">>, <<"%", "f">>,
                       <<"\\", "%", "\\", "t">>, <<"%", "n", ":", "%", "k", "%", "m">>,
                       [i \in 1..(BufSize + 1) |-> "a"]},
                arg \in {<<"x">>, <<"z">>}}
        \* search -f %s
        LineOptions == {Options(0, Text(<<"%", "s">>), NoText, NoText, NoText, NoText)}
    IN ((FilterOptions \cup LocationOptions \cup FormatOptions)
            \X {Store(records) : records \in SUBSET FilterRecords})
       \cup (LineOptions \X {Store(records) : records \in SUBSET LineRecords})
       \cup (LineOptions \X {EmptyDb, [Store({}) EXCEPT !.user_version = 0],
                             [Store({}) EXCEPT !.journal_mode = "delete"]})

InitSearch ==
    /\ InitIdle
    /\ \E s \in Searches :
        /\ db = s[2]
        /\ search = SearchStart(s[1])

NextSearch ==
    \/ main_search
    \/ command_search
    \/ search_query_callback
    \/ command_search_return

SpecSearch == InitSearch /\ [][NextSearch]_vars

----------------------------------------------------------------------------
(* What the claims speak of.                                                *)

Adds(p) == sindex_command[p] = "add"

Merged(p) == last_commit = [proc |-> p, op |-> "merge"]

Removed(p) == last_commit = [proc |-> p, op |-> "rm"]

Stop == {"exit1", "killed"}

\* the index records of one file record, without the file id
RowsOf(t, f) ==
    {[symbol |-> r.symbol, kind |-> r.kind, mode |-> r.mode, line |-> r.line,
      column |-> r.column, context |-> r.context] : r \in {x \in t.sindex : x.file = f.id}}

\* the index records of the file stored under a name, as (symbol, kind, mode, line, column)
KeysOfName(t, name) ==
    {<<r.symbol, r.kind, r.mode, r.line, r.column>> :
        r \in {x \in t.sindex : \E f \in t.file : f.name = name /\ f.id = x.file}}

\* the keys the callbacks of a run report for the file of a name: what each callback
\* stages when its stream has a slot
EmittedKeys(p, name) ==
    LET slots == [i \in 1..Len(input_streams[p]) |-> 0]
        mine == {k \in 1..Len(trace[p]) :
                    /\ input_streams[p][trace[p][k].pos.stream].fd # -1
                    /\ input_streams[p][trace[p][k].pos.stream].name = cwd \o <<"/">> \o name}
        rows == UNION {{callback_tail(<<>>, trace[p][k], slots,
                                      sindex_include_local_syms[p])[j] :
                            j \in 1..Len(callback_tail(<<>>, trace[p][k], slots,
                                                       sindex_include_local_syms[p]))} :
                        k \in mine}
    IN {<<r.symbol, r.kind, r.mode, r.line, r.column>> : r \in rows}

Matches(patterns, name) == \E k \in 1..Len(patterns) : Glob(patterns[k], name)

\* the streams update_stream has to ignore
IgnoredStreams == {FileC, FileD, FileBuiltin}

----------------------------------------------------------------------------
(* The claims.                                                              *)

\* C1: in every committed state no two sindex records share the key (symbol,
\* kind, mode, file, line, column), and right after the merge of an `add` run
\* every key the run staged, once or several times, also with differing
\* contexts, has exactly one record in the store.
C1_UniqueKey ==
    /\ \A r1, r2 \in db.sindex : sindex_0(r1) = sindex_0(r2) => r1 = r2
    /\ \A p \in Procs : Merged(p) =>
        \A k \in 1..Len(staging[p]) :
            Cardinality({r \in db.sindex : sindex_0(r) = sindex_0(staging[p][k])}) = 1

C1_Witness ==
    \E p \in Procs :
        /\ Merged(p)
        /\ \E j, k \in 1..Len(staging[p]) :
            /\ sindex_0(staging[p][j]) = sindex_0(staging[p][k])
            /\ staging[p][j].context # staging[p][k].context

\* C2: in every committed state every sindex record's file is the id of a file
\* record in the file table, under any interleaving of `add` and `rm`; so a
\* file record deleted by `rm` or by the stale-mtime path takes its sindex
\* records with it.
C2_ForeignKey == \A r \in db.sindex : \E f \in db.file : f.id = r.file

C2_Witness ==
    \E p \in Procs :
        /\ last_commit = [proc |-> p, op |-> "update_stream"]
        /\ \E r \in pre[p].sindex : r.file \notin FileIds(db)
        /\ db.file # {}

\* C3: after a completed `add` run over a file that was in the index with another
\* mtime, the store holds for that file exactly the records emitted in this run
\* and a file record with the new mtime, and the files the run did not read are
\* unchanged; also when the frontend makes no callback.
C3_MtimeReplaces ==
    \A p \in Procs : (Adds(p) /\ Merged(p)) =>
        \A i \in 1..Len(input_streams[p]) :
            LET s == input_streams[p][i]
                name == relative_name(s.name)
            IN (/\ s \in {FileA, FileB}
                /\ \E f \in pre[p].file : f.name = name /\ f.mtime # pre[p].mtime[s.name])
               => /\ \E f \in db.file : f.name = name /\ f.mtime = mtime[s.name]
                  /\ KeysOfName(db, name) = EmittedKeys(p, name)
                  /\ \A g \in pre[p].file :
                        (\A j \in 1..Len(input_streams[p]) :
                            input_streams[p][j].name # cwd \o <<"/">> \o g.name)
                        => g \in db.file /\ RowsOf(db, g) = RowsOf(pre[p], g)

\* C4: an `add` run that follows an `add` run with the same streams, the same
\* callbacks and the same mtimes leaves the file table and the sindex records
\* as the first run left them.
C4_Idempotent ==
    \A p, q \in Procs :
        (/\ q = p + 1
         /\ Adds(p) /\ pc[p] = "exit0"
         /\ Adds(q) /\ Merged(q)
         /\ input_streams[q] = input_streams[p]
         /\ trace[q] = trace[p]
         /\ sindex_include_local_syms[q] = sindex_include_local_syms[p]
         /\ pre[q].mtime = pre[p].mtime)
        => db.file = pre[q].file /\ db.sindex = pre[q].sindex

C4_Witness ==
    \E p, q \in Procs :
        /\ q = p + 1
        /\ Adds(p) /\ pc[p] = "exit0"
        /\ Adds(q) /\ Merged(q)
        /\ input_streams[q] = input_streams[p]
        /\ trace[q] = trace[p]
        /\ pre[q].mtime = pre[p].mtime
        /\ staging[q] # <<>>
        /\ db.sindex # {}

\* C5 as stated: while an `add` run has not committed its merge, a reader finds
\* for every file the complete set of records from before the run.
C5_ReaderSeesOldOrNew ==
    \A p \in Procs : (Adds(p) /\ Running(p)) =>
        \A f \in pre[p].file :
            \E g \in db.file : g.name = f.name /\ RowsOf(db, g) = RowsOf(pre[p], f)

\* C5 as amended: a run publishes its records at once: the only step that adds
\* sindex records is the commit of a merge, which keeps what was there and leaves
\* every staged key in the store; in every step the records of a file either all
\* stay or, when update_stream or `rm` deletes the file record, all go. So between
\* update_stream's commit and the merge a stale file has no records.
C5_AtomicPublication ==
    [][/\ (db'.sindex \ db.sindex # {}) =>
            \E p \in Procs :
                /\ Adds(p) /\ pc[p] = "merge" /\ pc'[p] = "exit0"
                /\ db.sindex \subseteq db'.sindex
                /\ \A k \in 1..Len(staging[p]) :
                    \E r \in db'.sindex : sindex_0(r) = sindex_0(staging[p][k])
       /\ \A f \in db.file :
            \/ RowsOf(db, f) \subseteq RowsOf(db', f)
            \/ RowsOf(db', f) = {} /\ f \notin db'.file]_vars

C5_Witness ==
    \E p \in Procs :
        /\ Adds(p) /\ Running(p)
        /\ staging[p] # <<>>
        /\ \E f \in pre[p].file : RowsOf(pre[p], f) # {} /\ RowsOf(db, f) = {}

\* C6 as stated: an `add` run that exits with status 1 or is killed has changed
\* nothing in the persistent tables.
C6_AbortLeavesUntouched ==
    \A p \in Procs : (Adds(p) /\ pc[p] \in Stop) => ~wrote[p]

\* C6 as amended: the step in which an `add` run exits with status 1 or is killed
\* leaves the committed tables as the last committed transaction left them (the
\* open transaction is rolled back whole); what update_stream committed earlier
\* in the run stays.
C6_AbortRollsBack ==
    [][\A p \in Procs :
          (Adds(p) /\ pc[p] \notin Stop /\ pc'[p] \in Stop) => db' = db]_vars

C6_Witness ==
    \E p \in Procs : Adds(p) /\ pc[p] = "killed" /\ wrote[p] /\ staging[p] # <<>>

\* C7: right after `rm` commits, no file record whose stored name matched one of
\* the patterns is left, and no sindex record references such a file.
C7_RmRemoves ==
    \A p \in Procs : Removed(p) =>
        \A f \in pre[p].file : Matches(argv[p], f.name) =>
            /\ \A g \in db.file : g.name # f.name /\ g.id # f.id
            /\ \A r \in db.sindex : r.file # f.id

C7_Witness ==
    \E p \in Procs :
        /\ Removed(p)
        /\ Len(argv[p]) > 1
        /\ \E f \in pre[p].file :
            Matches(argv[p], f.name) /\ ~Glob(argv[p][1], f.name) /\ RowsOf(pre[p], f) # {}
        /\ db.file # {}

\* C8: the file table never holds two records with one name, no insert of a file
\* record fails on the name, and the lookup, delete and insert of update_stream
\* run with the write lock held by that process alone.
C8_NoDuplicateFile ==
    /\ \A f, g \in db.file : f.name = g.name => f = g
    /\ \A p \in Procs : err[p] # "UNIQUE constraint failed: file.name"
    /\ \A p \in Procs : pc[p] \in {"us_select", "us_insert", "us_unlock"} =>
        /\ lock = p
        /\ \A q \in Procs \ {p} :
            pc[q] \notin {"us_select", "us_insert", "us_unlock", "merge", "rm_delete"}

C8_Witness ==
    \E p, q \in Procs :
        /\ p # q
        /\ pc[p] = "us_insert" /\ stream_at_hand(p) = FileA
        /\ pc[q] = "us_lock" /\ FileA = input_streams[q][Len(sindex_streams[q]) + 1]

\* C9: a stream outside the project root or without a backing file gets the slot
\* -1, no file record is made for it, and a callback positioned in it stages
\* nothing.
C9_IgnoredStreams ==
    \A p \in Procs :
        /\ \A i \in 1..Len(sindex_streams[p]) :
            input_streams[p][i] \in IgnoredStreams => sindex_streams[p][i] = -1
        /\ \A f \in db.file \cup tx.file : f.name \in {NameA, NameB}
        /\ \A k \in 1..Len(staging[p]) :
            \E i \in 1..Len(sindex_streams[p]) :
                /\ input_streams[p][i] \notin IgnoredStreams
                /\ sindex_streams[p][i] = staging[p][k].file
        /\ Len(staging[p]) <=
            Cardinality({k \in 1..Len(trace[p]) :
                input_streams[p][trace[p][k].pos.stream] \notin IgnoredStreams})

C9_Witness ==
    /\ pc[1] = "exit0"
    /\ Len(trace[1]) = 2
    /\ Len(staging[1]) = 1
    /\ input_streams[1][trace[1][2].pos.stream] = FileC
    /\ trace[1][2].fn = "r_member"
    /\ ~trace[1][2].sym.local

\* C10: a mode made of the six R/W bits, printed by print_mode, parsed by
\* set_search_modmask and printed again gives the same three characters, and
\* the parsed mask is the mode.
C10_ModeRoundTrip ==
    /\ (search.pc = "exit1") => search.mode \notin ModeValues
    /\ (search.pc = "done" /\ search.mode # U_DEF) =>
        /\ search.out = search.text
        /\ search.modmask = search.mode
        /\ Len(search.text) = 3

C10_Witness ==
    /\ search.pc = "done"
    /\ search.mode = U_W_AOF + U_R_VAL + U_R_PTR + U_W_PTR
    /\ search.text = <<"w", "r", "m">>

----------------------------------------------------------------------------
(* search.                                                                  *)

\* the rows sqlite3_exec has handed or will hand to the callback
Returned == {search.rows[i] : i \in 1..Len(search.rows)}

\* the query of the search process has run
Queried == search.pc \in {"rows", "exit0"}

\* the command line is `search -m def` and nothing else
OnlyModeDef ==
    search.o = Options(0, NoText, Text(str_def), NoText, NoText, NoText)

Bit(v, b) == (v \div (2 ^ b)) % 2 = 1

\* record r passes every filter given on the command line of the search process
PassesFilters(r) ==
    /\ search.o.arg.has =>
        IF \E i \in 1..Len(search.o.arg.text) :
                search.o.arg.text[i] \in {"*", "?", "[", "]"}
        THEN Glob(search.o.arg.text, r.symbol)
        ELSE r.symbol = search.o.arg.text
    /\ search.o.p.has => Glob(search.o.p.text, r.name)
    /\ search.o.k.has => r.kind = tolower(search.o.k.text[1])
    /\ search.o.m.has =>
        LET mask == set_search_modmask(search.o.m.text).modmask IN
        IF mask = 0 THEN r.mode = 0
        ELSE \E b \in 0..(2 * U_SHIFT) : Bit(r.mode, b) /\ Bit(mask, b)

\* C12: without -e and -l, the rows search returns are exactly the stored records
\* that pass all given filters: symbol (equality, or GLOB when the pattern has one
\* of * ? [ ]), path GLOB, kind, and mode mask (mode == 0 for a zero mask, a common
\* bit otherwise); a filter not given restricts nothing.
C12_RowsAreFiltered ==
    (Queried /\ search.o.by = 0) =>
        Returned = {r \in joined(db) : PassesFilters(r)}

C12_Witness ==
    /\ search.pc = "exit0"
    /\ search.o.by = 0
    /\ search.o.arg = Text(<<"x", "*">>)
    /\ search.o.p.has /\ search.o.k.has
    /\ search.o.m = Text(<<"r">>)
    /\ Returned # {}
    /\ Returned # joined(db)
    /\ \E r \in joined(db) \ Returned : r.symbol = <<"x">> /\ r.name = <<"a">>

\* the colon-separated components of a location argument, in order
RECURSIVE Components(_)
Components(str) ==
    IF strchr(str, ":", 1) = 0 THEN <<str>>
    ELSE <<SubSeq(str, 1, strchr(str, ":", 1) - 1)>>
            \o Components(SubSeq(str, strchr(str, ":", 1) + 1, Len(str)))

\* C13: `search -e LOC` returns exactly the records whose file name is the first
\* component of LOC and, when given, whose line is the second and whose column
\* is the third component.
C13_ExplainByPosition ==
    (Queried /\ search.o.by = EXPLAIN_LOCATION /\ search.o.arg.has) =>
        LET loc == Components(search.o.arg.text) IN
        Returned = {r \in joined(db) :
                        /\ r.name = loc[1]
                        /\ Len(loc) >= 2 => r.line = atoi(loc[2])
                        /\ Len(loc) >= 3 => r.column = atoi(loc[3])}

\* text a comes strictly before text b, byte by byte
NameBefore(a, b) ==
    \E k \in 1..Len(b) :
        /\ \A i \in 1..(k - 1) : i <= Len(a) /\ a[i] = b[i]
        /\ k > Len(a) \/ Code(a[k]) < Code(b[k])

\* row a may be printed before row b
RowBefore(a, b) ==
    \/ NameBefore(a.name, b.name)
    \/ a.name = b.name /\ a.line < b.line
    \/ a.name = b.name /\ a.line = b.line /\ a.column <= b.column

\* C14: the rows search prints are sorted ascending by (file.name, line, column);
\* so the lines handed to print_file_line never decrease within one file, and the
\* requests of one file are consecutive.
C14_SortedOutput ==
    /\ \A i, j \in 1..Len(search.rows) :
            i < j => RowBefore(search.rows[i], search.rows[j])
    /\ \A i, j \in 1..Len(search.requests) :
            (i < j /\ search.requests[i].name = search.requests[j].name) =>
                /\ search.requests[i].line <= search.requests[j].line
                /\ \A k \in i..j : search.requests[k].name = search.requests[i].name

C14_Witness ==
    /\ search.pc = "exit0"
    /\ Len(search.requests) = Len(search.rows)
    /\ \E i, j, k \in 1..Len(search.rows) :
        /\ i < j /\ j < k
        /\ search.rows[i].name = search.rows[j].name
        /\ search.rows[i].line < search.rows[j].line
        /\ search.rows[j].name # search.rows[k].name
        /\ search.rows[k].line < search.rows[j].line

\* the format has a % that is neither quoted by a backslash nor followed by one
\* of the directives
RECURSIVE Malformed(_)
Malformed(fmt) ==
    IF fmt = <<>> THEN FALSE
    ELSE IF fmt[1] = "\\" THEN Malformed(SubSeq(fmt, 3, Len(fmt)))
    ELSE IF fmt[1] = "%"
    THEN \/ Len(fmt) = 1
         \/ fmt[2] \notin {"f", "l", "c", "C", "n", "m", "k", "s"}
         \/ Malformed(SubSeq(fmt, 3, Len(fmt)))
    ELSE Malformed(Tail(fmt))

\* C15: a search whose format string has an unknown % directive or ends with an
\* unterminated % never ends with exit status 0, whatever the store holds and
\* whether or not the query matches a record.
C15_BadFormatIsFatal ==
    (search.o.f.has /\ Malformed(search.o.f.text)) => search.pc # "exit0"

\* the text of line `line` of the file `name` without its trailing newline; nothing
\* for a line past the end of the file
LineText(name, line) ==
    IF line > Len(file_lines[name]) THEN <<>>
    ELSE SelectSeq(file_lines[name][line], LAMBDA c : c # "\n")

\* C19: for requests sorted by file and line, print_file_line prints for each
\* request exactly the text of the requested line without its newline, also when
\* a line is requested again, and nothing for a line past the end of the file.
C19_PrintsRequestedLine ==
    \A i \in 1..Len(search.requests) :
        search.requests[i].name \in DOMAIN file_lines =>
            search.requests[i].out =
                LineText(search.requests[i].name, search.requests[i].line)

----------------------------------------------------------------------------
(* The staging table and the write transaction.                             *)

\* C18: the staging table of a process never holds two records with the same key
\* (symbol, kind, mode, file, line, column).
C18_StagingHasNoDuplicateKey ==
    \A p \in Procs : \A i, j \in 1..Len(staging[p]) :
        sindex_0(staging[p][i]) = sindex_0(staging[p][j]) => i = j

\* C16: a process that found the store file present executes no statement that
\* changes the store before it has compared the version of the store with the
\* current version.
C16_VersionCheckBeforeWrite ==
    [][\A p \in Procs :
            (pc[p] = "open_exists" /\ pc'[p] # "open_exists") => db' = db]_vars

\* C17: when only `add` processes run against the store, none of them ends with
\* exit status 1 because of what another process did to the store: the only
\* error left to a process is a source file it cannot stat.
C17_ConcurrentAddsSucceed ==
    (\A q \in Procs : sindex_command[q] # "rm") =>
        \A p \in Procs : pc[p] = "exit1" => err[p] = "stat"

\* process p is about to run BEGIN IMMEDIATE
Waiting(p) == pc[p] \in {"us_lock", "merge_lock", "rm_begin"}

\* C20: a process that has ended holds no write transaction; a process about to
\* acquire the write transaction does not hold it already; and, under fairness,
\* a process waiting for the write transaction acquires it (or ends), and an add
\* run whose frontend has returned ends.
C20_LockReleased ==
    /\ [](\A p \in Procs : pc[p] \in Stopped \/ Waiting(p) => lock # p)
    /\ \A p \in Procs : Waiting(p) ~> (lock = p \/ pc[p] \in Stopped)
    /\ \A p \in Procs : (pc[p] = "merge_lock") ~> (pc[p] \in Stopped)

C20_Witness ==
    \E p, q \in Procs :
        /\ p # q
        /\ Waiting(p)
        /\ lock = q
        /\ pc[q] \in {"merge", "us_unlock", "rm_delete"}

----------------------------------------------------------------------------
(* The stream registry.                                                     *)

\* process p takes the step in which update_stream returns
Returns(p) == pc[p] = "us_unlock" /\ pc'[p] = "dissect"

\* slot i of p is the sentinel, or an id that was given out by a transaction
\* committed before this one, or the id of a file record that the COMMIT of this
\* step publishes for the path of stream i
SlotCommitted(p, i) ==
    LET id == sindex_streams[p][i] IN
    \/ id = -1
    \/ id <= db.seq
    \/ \E f \in db'.file :
            f.id = id /\ f.name = relative_name(input_streams[p][i].name)

\* the registry of p keeps every slot it has and only grows
RegistryGrows(p) ==
    /\ Len(sindex_streams'[p]) >= Len(sindex_streams[p])
    /\ \A i \in 1..Len(sindex_streams[p]) :
            sindex_streams'[p][i] = sindex_streams[p][i]

\* C21: the stream registry never shrinks and an assigned slot never changes;
\* when update_stream returns every stream revealed so far has a slot, and the
\* slot holds -1 or the id of a file record committed for that stream's path.
C21_RegistryStable ==
    [][\A p \in Procs :
            /\ RegistryGrows(p)
            /\ Returns(p) =>
                /\ Len(sindex_streams[p]) = Len(input_streams[p])
                /\ \A i \in 1..Len(sindex_streams[p]) : SlotCommitted(p, i)]_vars

----------------------------------------------------------------------------
(* Prepared statements.                                                     *)

\* C22: no execution of a statement with host parameters starts before the
\* bindings were cleared and the cursor reset after the execution before it, or
\* with a value left in a parameter; and outside a turn of update_stream's loop
\* every statement of a running or finished process stands cleared and reset.
C22_StatementsReset ==
    \A p \in Procs : \A s \in DOMAIN stmts[p] :
        /\ stmts[p][s].ok
        /\ pc[p] \notin {"us_insert", "exit1", "killed"} => stmts[p][s] = Prepared

\* an add run has executed select_file_stmt and insert_rec_stmt twice each, and
\* an rm run has executed its statement for two patterns
C22_Witness ==
    \E p, q \in Procs :
        /\ sindex_command[p] = "add"
        /\ Len(staging[p]) = 2
        /\ Len(sindex_streams[p]) = 2
        /\ \A i \in 1..2 : sindex_streams[p][i] > 0
        /\ sindex_command[q] = "rm"
        /\ Len(argv[q]) = 2
        /\ pc[q] = "exit0"

----------------------------------------------------------------------------
(* File ids.                                                                *)

\* process p takes the step in which the merge of command_add commits
Merges(p) == pc[p] = "merge" /\ pc'[p] = "exit0"

\* C23: no id is given to two file records of the store: the sequence of the
\* file table never goes back, every committed file record has an id at most the
\* sequence, every file record a commit adds has an id above it; and the records
\* a merge publishes name a file record that is there under the path of a stream
\* that the merging process registered under that id.
C23_FileIdsNeverReused ==
    [][/\ db'.seq >= db.seq
       /\ \A f \in db.file : f.id <= db.seq
       /\ \A f \in db'.file \ db.file : f.id > db.seq
       /\ \A p \in Procs : Merges(p) =>
            \A r \in db'.sindex \ db.sindex :
                \E k \in 1..Len(sindex_streams[p]) : \E f \in db'.file :
                    /\ sindex_streams[p][k] = r.file
                    /\ f.id = r.file
                    /\ f.name = relative_name(input_streams[p][k].name)]_vars

\* a merge has published records under a file id given out after an earlier
\* file record was deleted
C23_Witness ==
    \E r \in db.sindex : \E i \in 1..r.file : i \notin FileIds(db)

----------------------------------------------------------------------------
(* What `rm` leaves alone.                                                  *)

\* process p, running `rm`, takes a step
RmStep(p) == sindex_command'[p] = "rm" /\ pc'[p] # pc[p]

\* C24: no step of an `rm` run adds a file or sindex record, and every file
\* record whose name matches none of the patterns, with every sindex record that
\* references it, is after the step as it was before.
C24_RmFrame ==
    [][\A p \in Procs : RmStep(p) =>
            /\ db'.file \subseteq db.file
            /\ db'.sindex \subseteq db.sindex
            /\ \A f \in db.file : ~Matches(argv'[p], f.name) =>
                /\ f \in db'.file
                /\ \A r \in db.sindex : r.file = f.id => r \in db'.sindex]_vars

\* `rm` has removed a file with its records and has left another file with its
\* records in the store
C24_Witness ==
    \E p \in Procs :
        /\ Removed(p)
        /\ \E f \in pre[p].file : Matches(argv[p], f.name) /\ RowsOf(pre[p], f) # {}
        /\ \E f \in db.file : ~Matches(argv[p], f.name) /\ RowsOf(db, f) # {}

----------------------------------------------------------------------------
(* What a reporter callback writes.                                         *)

\* the callback c of process p returns in this step: at once, or after the
\* update_stream it had to wait in
Reports(p, c) ==
    \/ /\ pc[p] = "dissect" /\ pc'[p] = "dissect"
       /\ Len(trace'[p]) = Len(trace[p]) + 1
       /\ c = trace'[p][Len(trace'[p])]
    \/ Returns(p) /\ c = cb[p]

\* r_symbol and r_member return before insert_record
Dropped(p, c) ==
    \/ sindex_streams[p][c.pos.stream] = -1
    \/ ~sindex_include_local_syms[p] /\ c.sym.local
    \/ c.fn = "r_symbol" /\ ~c.sym.has_ident

\* a dropped callback leaves the staging table as it was
DroppedLeavesStaging ==
    \A p \in Procs : \A c \in {cb[p]} \cup {trace'[p][k] : k \in 1..Len(trace'[p])} :
        Reports(p, c) /\ Dropped(p, c) => staging'[p] = staging[p]

\* the persistent sindex table gains records only in the merge
GainsOnlyInMerge ==
    db'.sindex \subseteq db.sindex \/ \E p \in Procs : Merges(p)

====
